---- MODULE Spec2Model ----
(***************************************************************************)
(* Model of the exporter registry (internal/pkg/global/exporter_registry.go) *)
(* and of the container watcher exercised by pkg/watch/docker_container_test.go. *)
(***************************************************************************)
EXTENDS Integers, Sequences, FiniteSets, TLC

\* ---------------------------------------------------------------- bounds
Exporters == {"e1", "e2"}
Channels == {"c1", "c2"}
\* The caller registers at most as many pairs as there are exporters: enough
\* for every exporter to have a pair of its own, for two pairs to share a
\* channel and for one pair to be registered twice.
MaxHandlers == Cardinality(Exporters)
\* most items ever enqueued on the subscription channels
MaxMsgs == 2
\* The subscribers of a run: the tests subscribe one channel; a second one
\* is what multicast, a late subscription and a stalled subscriber beside a
\* live one need.
Subscribers == {"first", "second"}
MaxSubs == Cardinality(Subscribers)
\* capacity of a subscriber channel
SubCap == 1
\* most calls of Stop
MaxStops == 2
\* most events and errors the runtime adapter reports
MaxEvents == 2

\* Dynamic types a value on a chan interface{} can have: "ptr" is
\* *model.Message, "val" is model.Message (by value).
Kinds == {"ptr", "val"}
\* what a receive from a closed, drained channel yields: the nil interface
NilItem == [kind |-> "nil", id |-> 0]

VARIABLES
    handlers,   \* ExporterRegisterer.handlers
    callerPc,   \* position of the goroutine that calls Register and Start
    startI,     \* loop index i of Start
    wg,         \* counter of the sync.WaitGroup passed to Start
    tasks,      \* the goroutines Start has spawned, in spawn order
    chans,      \* buffered contents of each subscription channel
    closed,     \* channels their owner has closed
    ctxDone,    \* the context passed to Start is cancelled
    nextId,     \* enqueue stamp of the next item
    sent,       \* history: every item enqueued on each channel, in order
    handled,    \* history: ids passed to each exporter's HandleMessage, in call order
    regCalls    \* history: the arguments of the calls of Register, in call order

rvars == <<handlers, callerPc, startI, wg, tasks, chans, closed, ctxDone,
           nextId, sent, handled, regCalls>>

\* The container watcher and the test around it.
VARIABLES
    adapter,    \* utils.DefaultDockerAdapter: "none", "healthy", "error" or "runtime"
    once,       \* DockerMockAdapterError.once has run
    timer,      \* the mock's goroutine waiting on time.After: "off", "armed", "fired"
    msgch,      \* message stream returned by DockerEvents
    errch,      \* error stream returned by DockerEvents
    opens,      \* calls of DockerEvents so far
    wState,     \* watcher state
    wPc,        \* position of the watcher task
    outbox,     \* for each subscriber, the emitted Messages not yet sent to it
    wCancel,    \* the watcher's internal scope is cancelled
    stops,      \* calls of Stop so far
    subs,       \* subscriber list: for each, the number of Messages emitted before it
    emitch,     \* buffered contents of each subscriber channel
    observed,   \* what the test has received from each subscriber channel
    emitted,    \* history: names of the Messages emitted, in order
    wIn,        \* history: adapter events and errors the task has taken, in order
    wWg,        \* counter of the watcher's WaitGroup (w.Wg)
    discoveries \* history: discovery steps performed

wvars == <<adapter, once, timer, msgch, errch, opens, wState, wPc, outbox, wCancel, stops, subs, emitch, observed, emitted, wIn,
           wWg, discoveries>>

vars == <<rvars, wvars>>

\* ---------------------------------------------------------------- registry
ExporterHandler(e, c) == [exporter |-> e, subscriptionCh |-> c]

Init ==
    /\ handlers = <<>>
    /\ callerPc = "register"
    /\ startI = 0
    /\ wg = 0
    /\ tasks = <<>>
    /\ chans = [c \in Channels |-> <<>>]
    /\ closed = {}
    /\ ctxDone = FALSE
    /\ nextId = 1
    /\ sent = [c \in Channels |-> <<>>]
    /\ handled = [e \in Exporters |-> <<>>]
    /\ regCalls = <<>>
    /\ adapter = "none"
    /\ once = FALSE
    /\ timer = "off"
    /\ msgch = <<>>
    /\ errch = <<>>
    /\ opens = 0
    /\ wState = "Created"
    /\ wPc = "created"
    /\ outbox = <<>>
    /\ wCancel = FALSE
    /\ stops = 0
    /\ subs = <<>>
    /\ emitch = <<>>
    /\ observed = <<>>
    /\ emitted = <<>>
    /\ wIn = <<>>
    /\ wWg = 0
    /\ discoveries = 0

\* Exporters and channels are interchangeable, so the caller takes fresh ones
\* in a fixed order: e2 (c2) is first registered only after e1 (c1).
UsedExporters == {handlers[i].exporter : i \in 1..Len(handlers)}
UsedChannels == {handlers[i].subscriptionCh : i \in 1..Len(handlers)}
InOrder(e, c) ==
    /\ (e = "e2" /\ e \notin UsedExporters) => "e1" \in UsedExporters
    /\ (c = "c2" /\ c \notin UsedChannels) => "c1" \in UsedChannels

\* Mutant of Register: a pair that is already registered is not added again.
RegisterOnce(e, c) ==
    /\ callerPc = "register"
    /\ Len(regCalls) < MaxHandlers
    /\ InOrder(e, c)
    /\ handlers' = IF \E i \in 1..Len(handlers) : handlers[i] = ExporterHandler(e, c)
                     THEN handlers
                     ELSE Append(handlers, ExporterHandler(e, c))
    /\ regCalls' = Append(regCalls, <<e, c>>)
    /\ UNCHANGED wvars
    /\ UNCHANGED <<callerPc, startI, wg, tasks, chans, closed, ctxDone,
                   nextId, sent, handled>>

\* Register: append, no de-duplication, always nil error. Register writes the
\* slice Start ranges over without synchronisation, so the caller registers
\* everything and then calls Start once.
Register(e, c) ==
    /\ callerPc = "register"
    /\ Len(regCalls) < MaxHandlers
    /\ InOrder(e, c)
    /\ handlers' = Append(handlers, ExporterHandler(e, c))
    /\ regCalls' = Append(regCalls, <<e, c>>)
    /\ UNCHANGED wvars
    /\ UNCHANGED <<callerPc, startI, wg, tasks, chans, closed, ctxDone,
                   nextId, sent, handled>>

\* Start, entry: for i := range e.handlers
StartCall ==
    /\ callerPc = "register"
    /\ startI' = 1
    /\ callerPc' = IF Len(handlers) = 0 THEN "started" ELSE "add"
    /\ UNCHANGED wvars
    /\ UNCHANGED <<handlers, regCalls, wg, tasks, chans, closed, ctxDone, nextId,
                   sent, handled>>

\* Mutant of StartAdd: the goroutine is spawned without wg.Add(1).
StartAddForgotten ==
    /\ callerPc = "add"
    /\ callerPc' = "go"
    /\ UNCHANGED wvars
    /\ UNCHANGED <<handlers, regCalls, startI, wg, tasks, chans, closed, ctxDone, nextId,
                   sent, handled>>

\* Start, loop body: wg.Add(1)
StartAdd ==
    /\ callerPc = "add"
    /\ wg' = wg + 1
    /\ callerPc' = "go"
    /\ UNCHANGED wvars
    /\ UNCHANGED <<handlers, regCalls, startI, tasks, chans, closed, ctxDone, nextId,
                   sent, handled>>

\* Mutant of NewTask: the closure reads the handler list when it runs instead of
\* taking the pair as an argument, so every goroutine sees the last pair.
NewTaskCaptured(i) ==
    [idx |-> Len(handlers), exporter |-> handlers[Len(handlers)].exporter,
     ch |-> handlers[Len(handlers)].subscriptionCh, pc |-> "select",
     m |-> NilItem, child |-> "none"]

\* The goroutine of the go statement: the handler is passed by value.
NewTask(i) ==
    [idx |-> i, exporter |-> handlers[i].exporter,
     ch |-> handlers[i].subscriptionCh, pc |-> "select", m |-> NilItem,
     child |-> "none"]

\* Start, loop body: go func(e ExporterHandler){...}(e.handlers[i])
StartGo ==
    /\ callerPc = "go"
    /\ tasks' = Append(tasks, NewTask(startI))
    /\ startI' = startI + 1
    /\ callerPc' = IF startI = Len(handlers) THEN "started" ELSE "add"
    /\ UNCHANGED wvars
    /\ UNCHANGED <<handlers, regCalls, wg, chans, closed, ctxDone, nextId, sent,
                   handled>>

\* ---------------------------------------------------------------- MessageListener
TaskIds == 1..Len(tasks)

SetTask(t, r) == tasks' = [tasks EXCEPT ![t] = r]

\* Mutant of CanRecv: one dispatcher serves all pairs, so no task receives
\* while another task's handler call is in flight.
CanRecvSerialized(t) ==
    /\ tasks[t].pc = "select"
    /\ (chans[tasks[t].ch] # <<>> \/ tasks[t].ch \in closed)
    /\ \A u \in 1..Len(tasks) : u # t => tasks[u].pc \notin {"handle", "hung"}

\* case m := <-ch is ready: a buffered item, or the channel is closed
CanRecv(t) ==
    /\ tasks[t].pc = "select"
    /\ (chans[tasks[t].ch] # <<>> \/ tasks[t].ch \in closed)

\* Mutant of CanDone: line 87 assigns to ctx (= in place of :=), so after a
\* call the select looks at a child context that cancel() has released.
CanDoneShadowed(t) ==
    /\ tasks[t].pc = "select"
    /\ ctxDone \/ handled[tasks[t].exporter] # <<>>

\* case <-ctx.Done() is ready. ctx is the function's parameter: the ctx of
\* line 87 is a new variable of the case clause and does not outlive it.
CanDone(t) ==
    /\ tasks[t].pc = "select"
    /\ ctxDone

\* Mutant of IsMessage: the assertion is on the value type model.Message.
IsMessageValue(m) == m.kind = "val"

\* message, ok := m.(*model.Message): ok
IsMessage(m) == m.kind = "ptr"

\* Mutant of Recv: the receive case is taken only while the context is live.
RecvUnlessCancelled(t) ==
    /\ CanRecv(t)
    /\ ~ctxDone
    /\ LET c == tasks[t].ch IN
        IF chans[c] # <<>>
          THEN /\ SetTask(t, [tasks[t] EXCEPT !.pc = "assert", !.m = Head(chans[c])])
               /\ chans' = [chans EXCEPT ![c] = Tail(@)]
          ELSE /\ ~IsMessage(NilItem)
               /\ UNCHANGED <<tasks, chans>>
    /\ UNCHANGED wvars
    /\ UNCHANGED <<handlers, regCalls, callerPc, startI, wg, closed, ctxDone, nextId,
                   sent, handled>>

\* select picks case m := <-ch. A closed, drained channel yields the nil
\* interface: the assertion of line 82 fails, the warning is logged and the loop
\* continues, all of it local to the goroutine, so the task is at its select
\* again with nothing changed.
Recv(t) ==
    /\ CanRecv(t)
    /\ LET c == tasks[t].ch IN
        IF chans[c] # <<>>
          THEN /\ SetTask(t, [tasks[t] EXCEPT !.pc = "assert", !.m = Head(chans[c])])
               /\ chans' = [chans EXCEPT ![c] = Tail(@)]
          ELSE /\ ~IsMessage(NilItem)
               /\ UNCHANGED <<tasks, chans>>
    /\ UNCHANGED wvars
    /\ UNCHANGED <<handlers, regCalls, callerPc, startI, wg, closed, ctxDone, nextId,
                   sent, handled>>

\* Mutant of Dispatch: an unexpected item ends the listener (return in place
\* of continue).
DispatchReturnOnBad(t) ==
    /\ tasks[t].pc = "assert"
    /\ IF tasks[t].m.kind = "ptr"
         THEN /\ SetTask(t, [tasks[t] EXCEPT !.pc = "handle", !.child = "live"])
              /\ handled' = [handled EXCEPT ![tasks[t].exporter] =
                                Append(@, tasks[t].m.id)]
              /\ UNCHANGED wg
         ELSE /\ SetTask(t, [tasks[t] EXCEPT !.pc = "returned", !.m = NilItem])
              /\ wg' = wg - 1
              /\ UNCHANGED handled
    /\ UNCHANGED wvars
    /\ UNCHANGED <<handlers, regCalls, callerPc, startI, chans, closed, ctxDone,
                   nextId, sent>>

\* lines 82-88: the type assertion, then either the warning and continue,
\* or context.WithTimeout and the call of e.HandleMessage
Dispatch(t) ==
    /\ tasks[t].pc = "assert"
    /\ IF IsMessage(tasks[t].m)
         THEN /\ SetTask(t, [tasks[t] EXCEPT !.pc = "handle", !.child = "live"])
              /\ handled' = [handled EXCEPT ![tasks[t].exporter] =
                                Append(@, tasks[t].m.id)]
         ELSE /\ SetTask(t, [tasks[t] EXCEPT !.pc = "select", !.m = NilItem])
              /\ UNCHANGED handled
    /\ UNCHANGED wvars
    /\ UNCHANGED <<handlers, regCalls, callerPc, startI, wg, chans, closed, ctxDone,
                   nextId, sent>>

\* Mutant of Timeout: the listener gives the call up when the child context
\* expires and goes on with the next item.
TimeoutAbandons(t) ==
    /\ tasks[t].pc \in {"handle", "hung"}
    /\ tasks[t].child = "live"
    /\ SetTask(t, [tasks[t] EXCEPT !.pc = "select", !.child = "none",
                                   !.m = NilItem])
    /\ UNCHANGED wvars
    /\ UNCHANGED <<handlers, regCalls, callerPc, startI, wg, chans, closed, ctxDone,
                   nextId, sent, handled>>

\* DefaultExporterTimeout elapses during the call: the child context expires;
\* nothing in MessageListener waits on it.
Timeout(t) ==
    /\ tasks[t].pc \in {"handle", "hung"}
    /\ tasks[t].child = "live"
    /\ SetTask(t, [tasks[t] EXCEPT !.child = "expired"])
    /\ UNCHANGED wvars
    /\ UNCHANGED <<handlers, regCalls, callerPc, startI, wg, chans, closed, ctxDone,
                   nextId, sent, handled>>

\* Mutant of HandleReturn: cancel() is not called, the child context is kept.
HandleReturnNoCancel(t) ==
    /\ tasks[t].pc = "handle"
    /\ SetTask(t, [tasks[t] EXCEPT !.pc = "select", !.m = NilItem])
    /\ UNCHANGED wvars
    /\ UNCHANGED <<handlers, regCalls, callerPc, startI, wg, chans, closed, ctxDone,
                   nextId, sent, handled>>

\* e.HandleMessage returns; cancel(); next iteration
HandleReturn(t) ==
    /\ tasks[t].pc = "handle"
    /\ SetTask(t, [tasks[t] EXCEPT !.pc = "select", !.child = "none",
                                   !.m = NilItem])
    /\ UNCHANGED wvars
    /\ UNCHANGED <<handlers, regCalls, callerPc, startI, wg, chans, closed, ctxDone,
                   nextId, sent, handled>>

\* this call of e.HandleMessage is one that never returns
Hang(t) ==
    /\ tasks[t].pc = "handle"
    /\ SetTask(t, [tasks[t] EXCEPT !.pc = "hung"])
    /\ UNCHANGED wvars
    /\ UNCHANGED <<handlers, regCalls, callerPc, startI, wg, chans, closed, ctxDone,
                   nextId, sent, handled>>

\* Mutant of Done: the listener returns without wg.Done().
DoneNoSignal(t) ==
    /\ tasks[t].pc = "select"
    /\ ctxDone
    /\ SetTask(t, [tasks[t] EXCEPT !.pc = "returned"])
    /\ UNCHANGED wvars
    /\ UNCHANGED <<handlers, regCalls, callerPc, startI, wg, chans, closed, ctxDone,
                   nextId, sent, handled>>

\* select picks case <-ctx.Done(): return, and the deferred wg.Done()
Done(t) ==
    /\ CanDone(t)
    /\ SetTask(t, [tasks[t] EXCEPT !.pc = "returned"])
    /\ wg' = wg - 1
    /\ UNCHANGED wvars
    /\ UNCHANGED <<handlers, regCalls, callerPc, startI, chans, closed, ctxDone,
                   nextId, sent, handled>>

\* ---------------------------------------------------------------- environment
\* the owner of the context cancels it
Cancel ==
    /\ ~ctxDone
    /\ ctxDone' = TRUE
    /\ UNCHANGED wvars
    /\ UNCHANGED <<handlers, regCalls, callerPc, startI, wg, tasks, chans, closed,
                   nextId, sent, handled>>

\* a producer sends a value of dynamic type k on channel c
Enqueue(c, k) ==
    /\ nextId <= MaxMsgs
    /\ c \notin closed
    /\ LET it == [kind |-> k, id |-> nextId] IN
        /\ chans' = [chans EXCEPT ![c] = Append(@, it)]
        /\ sent' = [sent EXCEPT ![c] = Append(@, it)]
    /\ nextId' = nextId + 1
    /\ UNCHANGED wvars
    /\ UNCHANGED <<handlers, regCalls, callerPc, startI, wg, tasks, closed, ctxDone,
                   handled>>

\* the owner of channel c closes it
Close(c) ==
    /\ c \notin closed
    /\ closed' = closed \cup {c}
    /\ UNCHANGED wvars
    /\ UNCHANGED <<handlers, regCalls, callerPc, startI, wg, tasks, chans, ctxDone,
                   nextId, sent, handled>>

Next ==
    \/ \E e \in Exporters, c \in Channels : Register(e, c)
    \/ StartCall
    \/ StartAdd
    \/ StartGo
    \/ \E t \in TaskIds : Recv(t)
    \/ \E t \in TaskIds : Dispatch(t)
    \/ \E t \in TaskIds : Timeout(t)
    \/ \E t \in TaskIds : HandleReturn(t)
    \/ \E t \in TaskIds : Hang(t)
    \/ \E t \in TaskIds : Done(t)
    \/ Cancel
    \/ \E c \in Channels, k \in Kinds : Enqueue(c, k)
    \/ \E c \in Channels : Close(c)

Spec == Init /\ [][Next]_vars

\* Scheduling: the goroutine calling Start and every listener goroutine keep
\* running; a handler call that is not one that hangs returns; a select whose
\* ctx.Done() case is ready again and again eventually picks it (Go chooses
\* uniformly among the ready cases). Producers, the owner of the context and
\* the timer are not obliged to act.
Fairness ==
    /\ WF_vars(StartAdd)
    /\ WF_vars(StartGo)
    /\ \A t \in 1..MaxHandlers :
        /\ WF_vars(t \in TaskIds /\ Recv(t))
        /\ WF_vars(t \in TaskIds /\ Dispatch(t))
        /\ WF_vars(t \in TaskIds /\ HandleReturn(t))
        /\ SF_vars(t \in TaskIds /\ Done(t))

LiveSpec == Init /\ [][Next]_vars /\ Fairness

\* ---------------------------------------------------------------- mock adapters
AgentNodeUpName == "agent.node.up"
AgentNodeRestartName == "agent.node.restart"
AgentNodeDownName == "agent.node.down"

Event(status, exitCode) == [status |-> status, exitCode |-> exitCode]
\* what the task takes from the error stream
ErrorInput == [status |-> "error", exitCode |-> ""]

\* the form in which the watcher puts a Message on a subscriber channel: the
\* tests assert got.(model.Message), a value
WatcherPayloadKind == "val"

\* the two mocks of the tests, and a runtime adapter that reports what the
\* mocks do not: a die event with exit code zero, an event of another status
\* and an error at any time, besides restart events
Adapters == {"healthy", "error", "runtime"}
RuntimeEvents ==
    {Event("restart", ""), Event("die", "0"), Event("pause", ""), ErrorInput}

\* Mutant of HealthyEvents: the mock queues restart before start.
HealthyEventsSwapped ==
    <<Event("restart", ""), Event("start", ""), Event("die", "1")>>

\* DockerMockAdapterHealthy.DockerEvents: the three events put on msgch
HealthyEvents ==
    <<Event("start", ""), Event("restart", ""), Event("die", "1")>>

\* Mutant of TimerEvent: the mock's goroutine sends a start event.
TimerEventStart == Event("start", "")

\* DockerMockAdapterError.DockerEvents: the event sent after time.After(1s)
TimerEvent == Event("restart", "")

\* Mutant of MatchContainer: the mock reports ErrContainerNotFound.
MatchContainerNotFound == FALSE

\* MatchContainer of both mocks: always the container, nil error
MatchContainer == TRUE

\* DockerEvents of the installed mock: the healthy one makes fresh channels on
\* every call; the error one makes them once (with one error queued and the
\* goroutine started) and returns the same channels afterwards.
DockerEvents ==
    /\ opens' = opens + 1
    /\ IF adapter = "healthy"
         THEN /\ msgch' = HealthyEvents
              /\ errch' = <<>>
              /\ UNCHANGED <<once, timer>>
         ELSE IF ~once
           THEN /\ msgch' = <<>>
                /\ errch' = <<ErrorInput>>
                /\ once' = TRUE
                /\ timer' = "armed"
           ELSE UNCHANGED <<msgch, errch, once, timer>>

\* the goroutine of the error mock: d.msgch <- restart, one second after the
\* first DockerEvents call; by then a running watcher has taken the queued error
ErrTimer ==
    /\ timer = "armed"
    /\ errch = <<>> \/ wPc = "stopped"
    /\ msgch = <<>>
    /\ msgch' = <<TimerEvent>>
    /\ timer' = "fired"
    /\ UNCHANGED rvars
    /\ UNCHANGED <<adapter, once, errch, opens, wState, wPc, outbox, wCancel, stops, subs, emitch, observed, emitted,
                   wIn, wWg, discoveries>>

\* the runtime adapter opens an event subscription: two fresh streams
RuntimeOpen ==
    /\ opens' = opens + 1
    /\ msgch' = <<>>
    /\ errch' = <<>>
    /\ UNCHANGED <<once, timer>>

\* the subscription call of the adapter in use
OpenSubscription == IF adapter = "runtime" THEN RuntimeOpen ELSE DockerEvents

\* the runtime adapter puts an event on the message stream, or an error on
\* the error stream, of the subscription that is open, once the watcher has
\* taken the one before
RuntimeEvent(ev) ==
    /\ adapter = "runtime"
    /\ opens > 0
    /\ Len(wIn) < MaxEvents
    /\ msgch = <<>> /\ errch = <<>>
    /\ IF ev = ErrorInput
         THEN /\ errch' = Append(errch, ev)
              /\ UNCHANGED msgch
         ELSE /\ msgch' = Append(msgch, ev)
              /\ UNCHANGED errch
    /\ UNCHANGED rvars
    /\ UNCHANGED <<adapter, once, timer, opens, wState, wPc, outbox, wCancel,
                   stops, subs, emitch, observed, emitted, wIn, wWg,
                   discoveries>>

\* ---------------------------------------------------------------- the test
\* overrideDockerAdapter(ts.URL, mockad)
Override(a) ==
    /\ adapter = "none"
    /\ adapter' = a
    /\ UNCHANGED rvars
    /\ UNCHANGED <<once, timer, msgch, errch, opens, wState, wPc, outbox, wCancel, stops, subs, emitch, observed,
                   emitted, wIn, wWg, discoveries>>

\* got := <-emitch; got.(model.Message) must hold
TestRecv(i) ==
    /\ emitch[i] # <<>>
    /\ Head(emitch[i]).kind = WatcherPayloadKind
    /\ observed' = [observed EXCEPT ![i] = Append(@, Head(emitch[i]).name)]
    /\ emitch' = [emitch EXCEPT ![i] = Tail(@)]
    /\ UNCHANGED rvars
    /\ UNCHANGED <<adapter, once, timer, msgch, errch, opens, wState, wPc,
                   outbox, wCancel, stops, subs, emitted, wIn,
                   wWg, discoveries>>

\* ---------------------------------------------------------------- watcher
SubIds == 1..Len(subs)

\* w.Subscribe(emitch): a new subscriber gets what is emitted from now on
Subscribe ==
    /\ Len(subs) < MaxSubs
    /\ subs' = Append(subs, Len(emitted))
    /\ emitch' = Append(emitch, <<>>)
    /\ observed' = Append(observed, <<>>)
    /\ outbox' = Append(outbox, <<>>)
    /\ UNCHANGED rvars
    /\ UNCHANGED <<adapter, once, timer, msgch, errch, opens, wState, wPc,
                   wCancel, stops, emitted, wIn, wWg, discoveries>>

\* Start(w): the watcher task is spawned and joins w.Wg
WatchStart ==
    /\ wPc = "created"
    /\ adapter # "none"
    /\ wState' = "Discovering"
    /\ wPc' = "discover"
    /\ wWg' = wWg + 1
    /\ UNCHANGED rvars
    /\ UNCHANGED <<adapter, once, timer, msgch, errch, opens, outbox, wCancel,
                   stops, subs, emitch, observed, emitted, wIn, discoveries>>

\* w.Stop(): cancel the watcher's scope
Stop ==
    /\ stops < MaxStops
    /\ stops' = stops + 1
    /\ wCancel' = TRUE
    /\ UNCHANGED rvars
    /\ UNCHANGED <<adapter, once, timer, msgch, errch, opens, wState, wPc,
                   outbox, subs, emitch, observed, emitted, wIn, wWg,
                   discoveries>>

\* Mutant of BeginEmit: the Message goes to one subscriber, taken in turn.
BeginEmitLoadBalanced(name) ==
    /\ emitted' = Append(emitted, name)
    /\ outbox' = [i \in SubIds |->
                    IF i = (Len(emitted) % Len(subs)) + 1
                      THEN Append(outbox[i], name) ELSE outbox[i]]

\* emit: the Message is to be sent to every subscriber registered now, to
\* each of them independently of the others and in emission order
BeginEmit(name) ==
    /\ emitted' = Append(emitted, name)
    /\ outbox' = [i \in SubIds |-> Append(outbox[i], name)]

\* Discovery: list, match, emit agent.node.up; without a match the watcher
\* does not enter Streaming
Discover ==
    /\ wPc = "discover"
    /\ discoveries' = discoveries + 1
    /\ IF MatchContainer
         THEN /\ BeginEmit(AgentNodeUpName)
              /\ wPc' = "open"
         ELSE /\ wPc' = "failed"
              /\ UNCHANGED <<emitted, outbox>>
    /\ UNCHANGED rvars
    /\ UNCHANGED <<adapter, once, timer, msgch, errch, opens, wState, wCancel,
                   stops, subs, emitch, observed, wIn, wWg>>

\* Mutant of Deliver: the sends of a Message are made one subscriber after
\* the other, so a send waits for the subscribers before it.
DeliverInTurn(i) ==
    /\ outbox[i] # <<>>
    /\ \A j \in SubIds : j < i => outbox[j] = <<>>
    /\ Len(emitch[i]) < SubCap
    /\ emitch' = [emitch EXCEPT ![i] =
                    Append(@, [kind |-> WatcherPayloadKind, name |-> Head(outbox[i])])]
    /\ outbox' = [outbox EXCEPT ![i] = Tail(@)]
    /\ UNCHANGED rvars
    /\ UNCHANGED <<adapter, once, timer, msgch, errch, opens, wState, wPc,
                   wCancel, stops, subs, observed, emitted, wIn, wWg,
                   discoveries>>

\* the send to one subscriber: select { ch <- msg | cancelled }; the sends to
\* the other subscribers do not wait for it
Deliver(i) ==
    /\ outbox[i] # <<>>
    /\ Len(emitch[i]) < SubCap
    /\ emitch' = [emitch EXCEPT ![i] =
                    Append(@, [kind |-> WatcherPayloadKind, name |-> Head(outbox[i])])]
    /\ outbox' = [outbox EXCEPT ![i] = Tail(@)]
    /\ UNCHANGED rvars
    /\ UNCHANGED <<adapter, once, timer, msgch, errch, opens, wState, wPc,
                   wCancel, stops, subs, observed, emitted, wIn, wWg,
                   discoveries>>

\* Streaming: open the event subscription
Open ==
    /\ wPc = "open"
    /\ OpenSubscription
    /\ wPc' = "select"
    /\ wState' = "Streaming"
    /\ UNCHANGED rvars
    /\ UNCHANGED <<adapter, outbox, wCancel, stops, subs, emitch, observed,
                   emitted, wIn, wWg, discoveries>>

\* Mutant of Translate: every die event is reported as down.
TranslateAnyDie(ev) ==
    IF ev.status = "start" THEN AgentNodeUpName
    ELSE IF ev.status = "restart" THEN AgentNodeRestartName
    ELSE IF ev.status = "die" THEN AgentNodeDownName
    ELSE "none"

\* the name a status translates to, "none" when the event is ignored
Translate(ev) ==
    IF ev.status = "start" THEN AgentNodeUpName
    ELSE IF ev.status = "restart" THEN AgentNodeRestartName
    ELSE IF ev.status = "die" /\ ev.exitCode # "0" THEN AgentNodeDownName
    ELSE "none"

\* select: a value on the message stream
SelectMsg ==
    /\ wPc = "select"
    /\ msgch # <<>>
    /\ msgch' = Tail(msgch)
    /\ wIn' = Append(wIn, Head(msgch))
    /\ IF Translate(Head(msgch)) # "none"
         THEN BeginEmit(Translate(Head(msgch)))
         ELSE UNCHANGED <<emitted, outbox>>
    /\ UNCHANGED rvars
    /\ UNCHANGED <<adapter, once, timer, errch, opens, wState, wPc, wCancel,
                   stops, subs, emitch, observed, wWg, discoveries>>

\* Mutant of SelectErr: an error sends the watcher back to discovery.
SelectErrRediscover ==
    /\ wPc = "select"
    /\ errch # <<>>
    /\ errch' = Tail(errch)
    /\ wIn' = Append(wIn, ErrorInput)
    /\ wState' = "Discovering"
    /\ wPc' = "reopen"
    /\ UNCHANGED rvars
    /\ UNCHANGED <<adapter, once, timer, msgch, opens, outbox, wCancel, stops,
                   subs, emitch, observed, emitted, wWg, discoveries>>

\* select: a value on the error stream
SelectErr ==
    /\ wPc = "select"
    /\ errch # <<>>
    /\ errch' = Tail(errch)
    /\ wIn' = Append(wIn, ErrorInput)
    /\ wState' = "Repairing"
    /\ wPc' = "reopen"
    /\ UNCHANGED rvars
    /\ UNCHANGED <<adapter, once, timer, msgch, opens, outbox, wCancel, stops,
                   subs, emitch, observed, emitted, wWg, discoveries>>

\* Repairing: re-open the subscription, emit agent.node.up, back to Streaming
Reopen ==
    /\ wPc = "reopen"
    /\ OpenSubscription
    /\ BeginEmit(AgentNodeUpName)
    /\ wPc' = "select"
    /\ wState' = "Streaming"
    /\ UNCHANGED rvars
    /\ UNCHANGED <<adapter, wCancel, stops, subs, emitch, observed, wIn, wWg,
                   discoveries>>

\* Mutant of StopObserved: the task first waits for the sends still to be made.
StopObservedAfterDelivery ==
    /\ wPc = "select"
    /\ \A i \in SubIds : outbox[i] = <<>>
    /\ wCancel
    /\ wState' = "Stopped"
    /\ wPc' = "stopped"
    /\ outbox' = [i \in SubIds |-> <<>>]
    /\ wWg' = wWg - 1
    /\ UNCHANGED rvars
    /\ UNCHANGED <<adapter, once, timer, msgch, errch, opens, wCancel, stops,
                   subs, emitch, observed, emitted, wIn, discoveries>>

\* cancellation seen at the select: the sends still to be made are given up,
\* the state is Stopped and the task returns
StopObserved ==
    /\ wPc = "select"
    /\ wCancel
    /\ wState' = "Stopped"
    /\ wPc' = "stopped"
    /\ outbox' = [i \in SubIds |-> <<>>]
    /\ wWg' = wWg - 1
    /\ UNCHANGED rvars
    /\ UNCHANGED <<adapter, once, timer, msgch, errch, opens, wCancel, stops,
                   subs, emitch, observed, emitted, wIn, discoveries>>

WatchNext ==
    \/ \E a \in Adapters : Override(a)
    \/ Subscribe
    \/ WatchStart
    \/ Stop
    \/ Discover
    \/ \E i \in SubIds : Deliver(i)
    \/ Open
    \/ SelectMsg
    \/ SelectErr
    \/ Reopen
    \/ StopObserved
    \/ ErrTimer
    \/ \E ev \in RuntimeEvents : RuntimeEvent(ev)
    \/ \E i \in SubIds : TestRecv(i)

WatchSpec == Init /\ [][WatchNext]_vars

\* Scheduling: the watcher task and its sends keep running, and a select at
\* which cancellation is ready again and again eventually takes it. The test
\* need not drain its channel and need not call Stop.
WatchFairness ==
    /\ WF_vars(Discover) /\ WF_vars(Open) /\ WF_vars(Reopen)
    /\ WF_vars(SelectMsg) /\ WF_vars(SelectErr)
    /\ \A i \in 1..MaxSubs : WF_vars(i \in SubIds /\ Deliver(i))
    /\ SF_vars(StopObserved)

WatchLiveSpec == Init /\ [][WatchNext]_vars /\ WatchFairness

\* ---------------------------------------------------------------- properties
IsPrefix(a, b) == Len(a) <= Len(b) /\ SubSeq(b, 1, Len(a)) = a

\* ids of the well-formed Messages enqueued on c, in enqueue order
WellFormedIds(c) ==
    LET s == SelectSeq(sent[c], LAMBDA it : it.kind = "ptr")
    IN [i \in 1..Len(s) |-> s[i].id]

SeqRange(s) == {s[i] : i \in 1..Len(s)}

PairIds == 1..Len(handlers)
\* pair i is the only pair of its exporter, and the only pair of its channel
OnlyPairOfExporter(i) ==
    \A j \in PairIds : handlers[j].exporter = handlers[i].exporter => j = i
OnlyPairOfChannel(i) ==
    \A j \in PairIds : handlers[j].subscriptionCh = handlers[i].subscriptionCh => j = i

\* a call of HandleMessage by task t has not returned
InFlight(t) == tasks[t].pc \in {"handle", "hung"}

\* the messages of channel c among those passed to e.HandleMessage, in call order
HandledFrom(e, c) ==
    SelectSeq(handled[e], LAMBDA id : \E k \in 1..Len(sent[c]) : sent[c][k].id = id)

Increasing(s) == \A p, q \in 1..Len(s) : p < q => s[p] < s[q]

\* C1 as stated: for every registered exporter, the messages of its
\* subscription channel passed to its HandleMessage are a prefix of the
\* well-formed Messages enqueued on that channel.
C1_PrefixOfEnqueueOrder ==
    \A i \in PairIds :
        IsPrefix(HandledFrom(handlers[i].exporter, handlers[i].subscriptionCh),
                 WellFormedIds(handlers[i].subscriptionCh))

\* C1 amended: the prefix property holds for every pair whose channel is the
\* channel of no other pair; on a channel shared by several pairs an exporter
\* that has one pair with it is still passed its messages in enqueue order.
C1_PrefixWhenChannelNotShared ==
    \A i \in PairIds :
        LET e == handlers[i].exporter
            c == handlers[i].subscriptionCh
        IN /\ OnlyPairOfChannel(i) =>
                  IsPrefix(HandledFrom(e, c), WellFormedIds(c))
           /\ (\A j \in PairIds : handlers[j] = handlers[i] => j = i) =>
                  Increasing(HandledFrom(e, c))

\* two messages of a channel that is not shared were handled, in order, with a
\* second pair registered
C1_Witness ==
    \E i \in PairIds :
        /\ OnlyPairOfChannel(i)
        /\ Len(handlers) = 2
        /\ HandledFrom(handlers[i].exporter, handlers[i].subscriptionCh) = <<1, 2>>

\* C2 as stated: at most one in-flight HandleMessage invocation per
\* registered exporter.
C2_OneInFlightPerExporter ==
    \A e \in Exporters :
        Cardinality({t \in TaskIds : tasks[t].exporter = e /\ InFlight(t)}) <= 1

\* C2 amended: at most one in-flight invocation per registered pair, hence
\* per exporter that is registered in only one pair.
C2_OneInFlightPerPair ==
    /\ \A i \in PairIds :
           Cardinality({t \in TaskIds : tasks[t].idx = i /\ InFlight(t)}) <= 1
    /\ \A i \in PairIds :
           OnlyPairOfExporter(i) =>
               Cardinality({t \in TaskIds :
                   tasks[t].exporter = handlers[i].exporter /\ InFlight(t)}) <= 1

\* two exporters, each registered once, both with a call in flight
C2_Witness ==
    /\ callerPc = "started"
    /\ Len(tasks) = 2
    /\ tasks[1].exporter # tasks[2].exporter
    /\ InFlight(1) /\ InFlight(2)

Live == {t \in TaskIds : tasks[t].pc # "returned"}
Returned == {t \in TaskIds : tasks[t].pc = "returned"}

\* C3: Start spawns exactly one task per registered pair, the WaitGroup
\* counts a task before its goroutine exists, every task holds the channel and
\* exporter of its own pair and handles only items of that channel, and live
\* plus returned tasks equal the registered pairs once Start has returned.
C3_OneTaskPerPair ==
    /\ Len(tasks) <= Len(handlers)
    /\ \A t \in TaskIds :
        /\ tasks[t].idx = t
        /\ tasks[t].exporter = handlers[t].exporter
        /\ tasks[t].ch = handlers[t].subscriptionCh
        /\ tasks[t].m # NilItem => tasks[t].m \in SeqRange(sent[tasks[t].ch])
    /\ \A e \in Exporters : \A id \in SeqRange(handled[e]) :
        \E t \in TaskIds : /\ tasks[t].exporter = e
                           /\ id \in SeqRange(WellFormedIds(tasks[t].ch))
    /\ wg = Cardinality(Live) + (IF callerPc = "go" THEN 1 ELSE 0)
    /\ callerPc = "started" =>
           Cardinality(Live) + Cardinality(Returned) = Len(handlers)

\* Start has returned with two pairs registered, one task has returned and the
\* other is inside HandleMessage
C3_Witness ==
    /\ callerPc = "started"
    /\ Len(handlers) = 2
    /\ Cardinality(Returned) = 1
    /\ \E t \in TaskIds : tasks[t].pc = "handle"

\* C4: once the context is cancelled, every task whose handler call is not
\* one that hangs returns, and once Start has run the WaitGroup counter
\* reaches zero unless a handler hangs.
C4_CancelledTasksReturn ==
    /\ \A t \in 1..MaxHandlers :
        (ctxDone /\ t \in TaskIds) ~>
            (t \in TaskIds /\ tasks[t].pc \in {"returned", "hung"})
    /\ (ctxDone /\ callerPc # "register") ~>
            /\ callerPc = "started"
            /\ (wg = 0 \/ \E t \in TaskIds : tasks[t].pc = "hung")

\* cancelled, both tasks have returned after a delivery, the WaitGroup is at zero
C4_Witness ==
    /\ ctxDone
    /\ callerPc = "started"
    /\ Len(tasks) = 2
    /\ \A t \in TaskIds : tasks[t].pc = "returned"
    /\ wg = 0
    /\ \E e \in Exporters : handled[e] # <<>>

\* a task that has received an item that is not a *model.Message
Dropping(t) == tasks[t].pc = "assert" /\ tasks[t].m.kind # "ptr"

\* C5: the step that follows the receipt of a malformed item invokes no
\* handler and leaves the task at its select, no malformed item is ever passed
\* to a handler, and a well-formed Message waiting on the channel at that
\* moment is passed to a handler unless the context is cancelled or a handler
\* call of that channel hangs.
C5_MalformedDropped ==
    /\ [][\A t \in TaskIds :
            (Dropping(t) /\ tasks'[t] # tasks[t]) =>
                /\ tasks'[t].pc = "select"
                /\ handled' = handled
                /\ wg' = wg]_vars
    /\ [](\A e \in Exporters : \A id \in SeqRange(handled[e]) :
            \E c \in Channels : id \in SeqRange(WellFormedIds(c)))
    /\ \A t \in 1..MaxHandlers : \A id \in 1..MaxMsgs :
        (/\ t \in TaskIds
         /\ Dropping(t)
         /\ [kind |-> "ptr", id |-> id] \in SeqRange(chans[tasks[t].ch])) ~>
            \/ ctxDone
            \/ \E e \in Exporters : id \in SeqRange(handled[e])
            \/ \E u \in TaskIds : tasks[u].pc = "hung"

\* a malformed item was dropped and the Message enqueued after it on the same
\* channel was handled
C5_Witness ==
    \E i \in PairIds :
        /\ sent[handlers[i].subscriptionCh] =
               <<[kind |-> "val", id |-> 1], [kind |-> "ptr", id |-> 2]>>
        /\ handled[handlers[i].exporter] = <<2>>

\* Message id waits on the channel of task t, which no other pair shares,
\* while the handler call of another task is hung
WaitsBesideHung(t, id) ==
    /\ \E u \in TaskIds : u # t /\ tasks[u].pc = "hung"
    /\ OnlyPairOfChannel(tasks[t].idx)
    /\ [kind |-> "ptr", id |-> id] \in SeqRange(chans[tasks[t].ch])

\* C6: with the handler call of another task hung, a Message waiting on a
\* channel that is not shared is still passed to the exporter of its pair
\* unless the context is cancelled or that exporter itself hangs, and after
\* cancellation every task that is not hung returns.
C6_FaultIsolation ==
    /\ \A id \in 1..MaxMsgs :
        (\E t \in TaskIds : WaitsBesideHung(t, id)) ~>
            \/ ctxDone
            \/ \E t \in TaskIds :
                /\ [kind |-> "ptr", id |-> id] \in SeqRange(sent[tasks[t].ch])
                /\ OnlyPairOfChannel(tasks[t].idx)
                /\ \/ id \in SeqRange(handled[tasks[t].exporter])
                   \/ tasks[t].pc = "hung"
    /\ (ctxDone /\ \E u \in TaskIds : tasks[u].pc = "hung") ~>
            \A t \in TaskIds : tasks[t].pc \in {"returned", "hung"}

\* one task hangs on message 1; the other exporter has handled message 2 of
\* its own channel and has returned after cancellation
C6_Witness ==
    \E t, u \in TaskIds :
        /\ tasks[u].pc = "hung" /\ tasks[u].m.id = 1
        /\ tasks[t].exporter # tasks[u].exporter
        /\ tasks[t].ch # tasks[u].ch
        /\ handled[tasks[t].exporter] = <<2>>
        /\ tasks[t].pc = "returned"

\* ---------------------------------------------------------------- watcher properties
Count(q, x) == Cardinality({k \in 1..Len(q) : q[k] = x})
CountStatus(st) == Cardinality({k \in 1..Len(wIn) : wIn[k].status = st})
NonZeroDies ==
    Cardinality({k \in 1..Len(wIn) : wIn[k].status = "die" /\ wIn[k].exitCode # "0"})

\* everything sent to subscriber i so far, received by the test or still buffered
Received(i) == observed[i] \o [k \in 1..Len(emitch[i]) |-> emitch[i][k].name]

\* the discovery Message has been emitted
Discovered == wPc \notin {"created", "discover", "failed"}

ScenarioA ==
    <<AgentNodeUpName, AgentNodeUpName, AgentNodeRestartName, AgentNodeDownName>>
ScenarioB == <<AgentNodeUpName, AgentNodeUpName, AgentNodeRestartName>>

\* C7: one agent.node.restart per restart event taken, one agent.node.down
\* per die event with a non-zero exit code, one agent.node.up per start event
\* besides those of discovery and repair; a subscriber registered before
\* Start receives the emitted Messages in order; with the healthy mock the
\* sequence is up, up, restart, down.
C7_OneToOneInOrder ==
    /\ Count(emitted, AgentNodeRestartName) = CountStatus("restart")
    /\ Count(emitted, AgentNodeDownName) = NonZeroDies
    /\ Count(emitted, AgentNodeUpName) =
           (IF Discovered THEN 1 ELSE 0) + CountStatus("start")
           + CountStatus("error") - (IF wPc = "reopen" THEN 1 ELSE 0)
    /\ \A i \in SubIds : subs[i] = 0 => IsPrefix(Received(i), emitted)
    /\ adapter = "healthy" => IsPrefix(emitted, ScenarioA)
    /\ (adapter = "healthy" /\ wPc = "select" /\ msgch = <<>>) =>
           emitted = ScenarioA

\* the test of the happy path has received up, up, restart, down
C7_Witness ==
    /\ adapter = "healthy"
    /\ Len(subs) >= 1
    /\ observed[1] = ScenarioA

\* C8: discovery is performed at most once, its agent.node.up is the first
\* Message emitted, and nothing else is emitted before the event subscription
\* is opened.
C8_DiscoveryOnceFirst ==
    /\ discoveries <= 1
    /\ wPc \notin {"created", "discover"} =>
           /\ discoveries = 1
           /\ emitted # <<>>
           /\ emitted[1] = AgentNodeUpName
    /\ opens = 0 => Len(emitted) <= 1
    /\ wIn = <<>> => Len(emitted) <= 1

\* after a repair and a translated event, discovery has still run once
C8_Witness ==
    /\ discoveries = 1
    /\ opens = 2
    /\ emitted = ScenarioB

\* C9: the task stops only on cancellation; every error taken is followed
\* by one more DockerEvents call and one more agent.node.up; with the error
\* mock the sequence is up (discovery), up (repair), restart.
C9_RepairOnError ==
    /\ wPc = "stopped" => wCancel
    /\ opens <= 1 + CountStatus("error")
    /\ (opens > 0 /\ wPc # "reopen") => opens = 1 + CountStatus("error")
    /\ wPc = "reopen" => opens = CountStatus("error")
    /\ opens > 0 =>
           Count(emitted, AgentNodeUpName) = opens + CountStatus("start")
    /\ wState = "Repairing" => wPc = "reopen"
    /\ adapter = "error" =>
           /\ IsPrefix(emitted, ScenarioB)
           /\ \A i \in SubIds : subs[i] = 0 => IsPrefix(Received(i), ScenarioB)
    /\ (adapter = "error" /\ wPc = "select" /\ timer = "fired" /\ msgch = <<>>) =>
           emitted = ScenarioB

\* the test of the repair path has received up, up, restart and the watcher
\* is streaming again
C9_Witness ==
    /\ adapter = "error"
    /\ Len(subs) >= 1
    /\ observed[1] = ScenarioB
    /\ wState = "Streaming"
    /\ opens = 2

\* C10: a call of Stop on a cancelled watcher changes nothing, and once Stop
\* has been called on a started watcher the task reaches Stopped and w.Wg
\* drops to zero, also when a send to a subscriber is blocked.
C10_StopTerminates ==
    /\ [][(stops' = stops + 1 /\ wCancel) =>
            UNCHANGED <<adapter, once, timer, msgch, errch, opens, wState, wPc,
                        outbox, wCancel, subs, emitch, observed,
                        emitted, wIn, wWg, discoveries>>]_vars
    /\ (wCancel /\ wPc # "created") ~> (wState = "Stopped" /\ wWg = 0)

\* Stop was called twice and the task has stopped while a subscriber's full
\* channel still lacked the Message being emitted
C10_Witness ==
    /\ stops = 2
    /\ wState = "Stopped"
    /\ wWg = 0
    /\ \E i \in SubIds :
        /\ Len(emitch[i]) = SubCap
        /\ observed[i] = <<>>
        /\ Len(emitted) > subs[i] + Len(Received(i))

\* the Messages emitted since subscriber i subscribed
Since(i) == SubSeq(emitted, subs[i] + 1, Len(emitted))

\* C11: every Message emitted goes to every subscriber registered when it is
\* emitted (each has received it or has it queued for sending, until the
\* watcher stops), and a subscriber receives only Messages emitted after it
\* subscribed, in emission order.
C11_Multicast ==
    \A i \in SubIds :
        /\ subs[i] <= Len(emitted)
        /\ IsPrefix(Received(i), Since(i))
        /\ wState # "Stopped" => Received(i) \o outbox[i] = Since(i)

\* the second subscriber subscribed after the first emission: the first has
\* received everything, the second everything but the discovery Message
C11_Witness ==
    /\ Len(subs) = 2
    /\ subs[1] = 0
    /\ subs[2] = 1
    /\ Len(emitted) >= 3
    /\ Received(1) = emitted
    /\ observed[2] # <<>>
    /\ Received(2) = Tail(emitted)

\* subscriber i has never been drained, its channel is full and a send to
\* it is waiting
Stalled(i) ==
    /\ i \in SubIds
    /\ observed[i] = <<>>
    /\ Len(emitch[i]) = SubCap
    /\ outbox[i] # <<>>

\* C12: while a subscriber is stalled, the Messages waiting for another
\* subscriber are sent to it as long as its own channel has room, the task
\* goes on taking the adapter events that are ready, and after Stop the
\* watcher reaches Stopped with w.Wg at zero and no send left waiting.
C12_StalledSubscriberIsolated ==
    /\ \A j \in 1..MaxSubs :
        (/\ j \in SubIds /\ outbox[j] # <<>>
         /\ \E i \in SubIds : i # j /\ Stalled(i))
            ~> \/ wState = "Stopped"
               \/ j \in SubIds /\ (outbox[j] = <<>> \/ Len(emitch[j]) = SubCap)
    /\ ((\E i \in SubIds : Stalled(i)) /\ wPc = "select" /\ msgch # <<>>)
            ~> (wState = "Stopped" \/ msgch = <<>>)
    /\ ((\E i \in SubIds : Stalled(i)) /\ wCancel)
            ~> (/\ wState = "Stopped" /\ wWg = 0
                /\ \A i \in SubIds : outbox[i] = <<>>)

\* the first subscriber still holds the discovery Message, the second has
\* received all four Messages of the happy path
C12_Witness ==
    /\ Len(subs) = 2
    /\ Stalled(1)
    /\ Len(outbox[1]) = 3
    /\ observed[2] = ScenarioA

\* an adapter event that is none of start, restart and die with a non-zero
\* exit code
Ignored(ev) ==
    /\ ev.status \notin {"start", "restart", "error"}
    /\ ~(ev.status = "die" /\ ev.exitCode # "0")

\* C13: taking a die event with exit code zero, or an event of any other
\* status than start, restart and die, emits nothing, opens nothing and
\* leaves the watcher Streaming at its select, ready for the next event.
C13_IgnoredEventsNoEffect ==
    [][(wIn' # wIn /\ Ignored(wIn'[Len(wIn')])) =>
          /\ wState = "Streaming"
          /\ wPc' = "select"
          /\ UNCHANGED <<wState, emitted, outbox, emitch, errch, opens, wWg,
                         wCancel, discoveries>>]_vars

\* a die event with exit code zero was taken without a Message, and the
\* restart event after it was translated
C13_Witness ==
    /\ wIn = <<Event("die", "0"), Event("restart", "")>>
    /\ emitted = <<AgentNodeUpName, AgentNodeRestartName>>
    /\ wState = "Streaming"

\* C14: the list of pairs is the list of the arguments of the calls of
\* Register made so far, in call order and with repeats, and a step either
\* leaves the list alone or appends one pair to it.
C14_RegisterAppends ==
    /\ [](handlers = [k \in 1..Len(regCalls) |->
                        ExporterHandler(regCalls[k][1], regCalls[k][2])])
    /\ [][\/ handlers' = handlers
          \/ \E e \in Exporters, c \in Channels :
                /\ regCalls' = Append(regCalls, <<e, c>>)
                /\ handlers' = Append(handlers, ExporterHandler(e, c))]_vars

\* the same pair was registered twice and is listed twice, also after Start
\* has run and a task has returned
C14_Witness ==
    /\ regCalls = <<<<"e1", "c1">>, <<"e1", "c1">>>>
    /\ handlers = <<ExporterHandler("e1", "c1"), ExporterHandler("e1", "c1")>>
    /\ callerPc = "started"
    /\ \E t \in TaskIds : tasks[t].pc = "returned"

\* an item a task has taken from channel c and is done with, or is handling
Taken(c, it) ==
    /\ it \in SeqRange(sent[c])
    /\ it \notin SeqRange(chans[c])
    /\ \A t \in TaskIds : tasks[t].pc = "assert" => tasks[t].m # it

\* C15: every item in the form the watcher puts on a subscriber channel (a
\* model.Message value) that a delivery task has taken from its channel has
\* been passed to HandleMessage.
C15_WatcherPayloadHandled ==
    \A c \in Channels : \A it \in SeqRange(sent[c]) :
        (it.kind = WatcherPayloadKind /\ Taken(c, it)) =>
            \E e \in Exporters : it.id \in SeqRange(handled[e])

\* C16 as stated: once the context is cancelled, the only step of a task
\* that is at its select is to return; it takes no further item from its
\* channel (a well-formed one would be passed to HandleMessage).
C16_CancelledSelectReturns ==
    [][\A t \in TaskIds :
          (tasks[t].pc = "select" /\ ctxDone /\ tasks'[t] # tasks[t]) =>
              tasks'[t].pc = "returned"]_vars

\* C16: once the context is cancelled, a task at its select with no item
\* buffered on its channel can only return, with wg.Done() and without a call
\* of HandleMessage; with an item buffered both cases of the select are
\* ready, and the task either returns or takes the item.
C16_CancelledSelectReturnsWhenIdle ==
    /\ [](\A t \in TaskIds :
            (tasks[t].pc = "select" /\ ctxDone) =>
                /\ ENABLED Done(t)
                /\ chans[tasks[t].ch] # <<>> => ENABLED Recv(t))
    /\ [][\A t \in TaskIds :
            (tasks[t].pc = "select" /\ ctxDone /\ tasks'[t] # tasks[t]) =>
                /\ handled' = handled
                /\ \/ tasks'[t].pc = "returned" /\ wg' = wg - 1
                   \/ /\ chans[tasks[t].ch] # <<>>
                      /\ tasks'[t].pc = "assert"
                      /\ tasks'[t].m = Head(chans[tasks[t].ch])]_vars

\* after cancellation a task has been passed a message that was still
\* buffered when the context was cancelled, and has then returned
C16_Witness ==
    \E t \in TaskIds :
        /\ ctxDone
        /\ tasks[t].pc = "returned"
        /\ handled[tasks[t].exporter] = <<1, 2>>
        /\ Len(tasks) = 1

\* the calls of HandleMessage made with message id, over all exporters
Calls(id) ==
    {<<e, k>> \in Exporters \X (1..MaxMsgs) :
        k <= Len(handled[e]) /\ handled[e][k] = id}

\* C17: a well-formed Message a task has taken is passed to HandleMessage
\* in the task's next step and exactly once, together with a fresh child
\* context; the child context exists exactly while the call is in progress,
\* and while it is the task takes nothing from its channel and starts no
\* other call.
C17_OneSynchronousCall ==
    /\ [](\A t \in TaskIds :
            /\ InFlight(t) <=> tasks[t].child # "none"
            /\ InFlight(t) =>
                /\ IsMessage(tasks[t].m)
                /\ tasks[t].m \in SeqRange(sent[tasks[t].ch])
                /\ tasks[t].m.id \in SeqRange(handled[tasks[t].exporter]))
    /\ [](\A c \in Channels : \A it \in SeqRange(sent[c]) :
            /\ Cardinality(Calls(it.id)) <= 1
            /\ (IsMessage(it) /\ Taken(c, it)) => Cardinality(Calls(it.id)) = 1)
    /\ [][\A t \in TaskIds :
            /\ (tasks[t].pc = "assert" /\ IsMessage(tasks[t].m)
                /\ tasks'[t] # tasks[t]) =>
                  /\ tasks'[t] = [tasks[t] EXCEPT !.pc = "handle", !.child = "live"]
                  /\ handled' = [handled EXCEPT ![tasks[t].exporter] =
                                    Append(@, tasks[t].m.id)]
            /\ (InFlight(t) /\ tasks'[t] # tasks[t]) =>
                  /\ chans' = chans
                  /\ handled' = handled
                  /\ tasks'[t].m \in {tasks[t].m, NilItem}
                  /\ tasks'[t].pc = "select" => tasks'[t].child = "none"]_vars

\* a task has handled message 1 and is in the call of message 2, during
\* which the child context has expired
C17_Witness ==
    \E t \in TaskIds :
        /\ Len(tasks) = 1
        /\ handled[tasks[t].exporter] = <<1, 2>>
        /\ tasks[t].pc = "handle"
        /\ tasks[t].m.id = 2
        /\ tasks[t].child = "expired"

\* C18: while a call of HandleMessage has not returned, the expiry of the
\* child context changes nothing but that context, and the task neither takes
\* an item nor returns, cancelled or not: a call that never returns keeps its
\* task for good.
C18_HungHandlerHoldsTask ==
    [][\A t \in TaskIds :
          /\ InFlight(t) =>
                /\ tasks'[t].pc \in {tasks[t].pc, "hung", "select"}
                /\ tasks'[t].pc # tasks[t].pc => tasks[t].pc = "handle"
                /\ (tasks[t].child = "live" /\ tasks'[t].child = "expired") =>
                      tasks'[t] = [tasks[t] EXCEPT !.child = "expired"]
                /\ tasks'[t] # tasks[t] => chans' = chans /\ wg' = wg
          /\ tasks[t].pc = "hung" =>
                /\ tasks'[t].pc = "hung"
                /\ tasks'[t].m = tasks[t].m]_vars

\* the context is cancelled, the child context of a hung call has expired,
\* an item waits on the task's channel, and the task has not returned
C18_Witness ==
    \E t \in TaskIds :
        /\ tasks[t].pc = "hung"
        /\ tasks[t].child = "expired"
        /\ ctxDone
        /\ chans[tasks[t].ch] # <<>>
        /\ wg = Len(tasks)

\* the state changes of the watcher that do not end in Stopped
Edges ==
    {<<"Created", "Discovering">>, <<"Discovering", "Streaming">>,
     <<"Streaming", "Repairing">>, <<"Repairing", "Streaming">>}

\* C19: the state of the watcher changes only along Created-Discovering,
\* Discovering-Streaming, Streaming-Repairing, Repairing-Streaming and from
\* any state to Stopped; once Stopped it stays Stopped, emits nothing, sends
\* nothing and opens no subscription; and every Message after the one of
\* discovery is emitted in Streaming or in the repair that leads back to it.
C19_StateMachine ==
    /\ [][wState' # wState =>
            (<<wState, wState'>> \in Edges \/ wState' = "Stopped")]_vars
    /\ [][wState = "Stopped" =>
            /\ UNCHANGED <<wState, wPc, emitted, opens, wWg>>
            /\ \A i \in SubIds : Len(emitch'[i]) <= Len(emitch[i])
            /\ \A i \in SubIds : outbox'[i] = <<>>]_vars
    /\ [][(emitted' # emitted /\ emitted # <<>>) =>
            /\ wState \in {"Streaming", "Repairing"}
            /\ wState' = "Streaming"
            /\ opens > 0]_vars

\* the watcher has been through Discovering, Streaming, Repairing and
\* Streaming again, and is Stopped
C19_Witness ==
    /\ wState = "Stopped"
    /\ opens = 2
    /\ CountStatus("error") = 1
    /\ Len(emitted) >= 3

\* C20: a task that has returned did so from its select with the context
\* cancelled; while the context is live the Done case of no select is ready,
\* whatever the task has received, dropped or handled before; and only the
\* owner's cancel makes the context cancelled.
C20_ReturnsOnlyOnCancel ==
    /\ [](\A t \in TaskIds :
            /\ tasks[t].pc = "returned" => ctxDone
            /\ ~ctxDone => ~ENABLED Done(t))
    /\ [][\A t \in TaskIds :
            (tasks'[t].pc = "returned" /\ tasks[t].pc # "returned") =>
                (ctxDone /\ tasks[t].pc = "select")]_vars
    /\ [][ctxDone' # ctxDone =>
            (ctxDone' /\ tasks' = tasks /\ chans' = chans /\ wg' = wg)]_vars
    /\ [][wg' < wg =>
            \E t \in TaskIds : tasks'[t].pc = "returned" /\ tasks[t].pc = "select"]_vars

\* with the context live, every task is back at its select on a closed and
\* drained channel, after a dropped item and a call of HandleMessage
C20_Witness ==
    /\ ~ctxDone
    /\ callerPc = "started"
    /\ wg = Len(tasks)
    /\ \A t \in TaskIds : tasks[t].pc = "select"
    /\ \E t \in TaskIds :
        /\ tasks[t].ch \in closed
        /\ chans[tasks[t].ch] = <<>>
        /\ handled[tasks[t].exporter] # <<>>
        /\ \E k \in 1..Len(sent[tasks[t].ch]) : ~IsMessage(sent[tasks[t].ch][k])

====
